---- MODULE Spec2Model ----
(***************************************************************************)
(* ResultWire: the Result<T, E> tagged union and its combinators.          *)
(*                                                                         *)
(* The library is a set of functions over plain objects.  The model is a   *)
(* caller that performs one library call after another; the state records  *)
(* the last call (operation, copy of the library, arguments), what it      *)
(* returned or threw, which caller-supplied functions it invoked, and the  *)
(* promises the call created with their reactions.                         *)
(***************************************************************************)
EXTENDS Integers, Sequences, FiniteSets, TLC

\* ------------------------------------------------------------------ bounds
MaxPayload == 2     \* payloads (values, errors, thrown values) are 0..MaxPayload
MaxLen == 3         \* longest sequence of Results handed to combine
MaxChain == 2       \* longest chain of steps fed with the previous step's Result

Payload == 0 .. MaxPayload

VARIABLES
    op,         \* name of the last operation called, "none" before the first call
    impl,       \* the copy of the library the call went to
    args,       \* the arguments of the call, a record
    ret,        \* how the call completed: [t |-> "ret" | "throw" | "promise", v |-> ...]
    invoked,    \* the caller-supplied functions the call invoked, in order
    promises,   \* the promises alive in the call, by id
    writes,     \* the assignments the call made to the objects it was handed, in order
    seen,       \* what the caller's await of the returned promise has delivered
    chain,      \* for a chain of steps: the Result it started from and its length
    jobsDone    \* the jobs the host has run since the call returned

vars == <<op, impl, args, ret, invoked, promises, writes, seen, chain, jobsDone>>

\* ------------------------------------------------------- completion records
Ret(v) == [t |-> "ret", v |-> v]
Throw(x) == [t |-> "throw", v |-> x]
RetPromise(id) == [t |-> "promise", v |-> id]

\* An execution of a library function: its completion and the calls it made.
\* ps: the promises it created or was handed, by id. w: its assignments to
\* the objects it was handed; no function of the library has one, each builds
\* a new object or array, or returns the one it got.
Exec(c, inv) == [c |-> c, inv |-> inv, ps |-> <<>>, w |-> <<>>]
ExecP(c, inv, ps) == [c |-> c, inv |-> inv, ps |-> ps, w |-> <<>>]

\* An assignment to a field of the Result handed over as "result".
FieldWrite(field, value) == [field |-> field, value |-> value]

\* The arguments as they are after the assignments ws, made from number i on.
RECURSIVE Written(_, _, _)
Written(a, ws, i) ==
    IF i > Len(ws) THEN a
    ELSE Written([a EXCEPT !.result = [f \in DOMAIN a.result |->
                        IF f = ws[i].field THEN ws[i].value ELSE a.result[f]]], ws, i + 1)

\* ------------------------------------------------------------ the data type
\* ok with the tag of err
okMutKind(value) == [kind |-> "err", error |-> value]
ok(value) == [kind |-> "ok", value |-> value]

\* err that builds what ok builds
errMutKind(error) == [kind |-> "ok", value |-> error]
err(error) == [kind |-> "err", error |-> error]

isOk(result) == result.kind = "ok"

\* isErr with "=" for "===": the assigned string 'err' is truthy
isErrMutAssign(result) == TRUE
isErr(result) == result.kind = "err"

\* The well-formed Results over the payloads: Ok<T> | Err<E>.
Result == {ok(x) : x \in Payload} \cup {err(e) : e \in Payload}

\* ------------------------------------------- caller-supplied functions
\* Functions a caller hands to map (T -> U): two that return, one that throws.
MapFns == {"inc", "double", "boom"}
\* Functions a caller hands to andThen (T -> Result<U, E>).
ChainFns == {"okInc", "fail", "boomChain"}

\* The two branch functions a caller hands to match (T -> U and E -> U).
MatchOkFns == {"inc", "boom"}
MatchErrFns == {"negate", "boomErr"}

\* Promise-returning functions a caller hands to asyncMap (T -> Promise<U>),
\* to asyncAndThen (T -> Promise<Result<U, E>>) and to asyncMatch.
AsyncMapFns == {"asyncInc", "asyncReject", "asyncBoom"}
AsyncChainFns == {"asyncOkInc", "asyncFail", "asyncRejectChain", "asyncBoomChain"}
AsyncMatchOkFns == {"asyncInc", "asyncReject"}
AsyncMatchErrFns == {"asyncNegate", "asyncBoomErr"}

\* What a promise-returning function does on x: it returns a promise that will
\* fulfil with v or reject with v, or it throws v before it returns one.
AsyncFate(f, x) ==
    CASE f = "asyncInc" -> [how |-> "fulfil", v |-> x + 1]
      [] f = "asyncReject" -> [how |-> "reject", v |-> x]
      [] f = "asyncBoom" -> [how |-> "throw", v |-> x]
      [] f = "asyncOkInc" -> [how |-> "fulfil", v |-> ok(x + 1)]
      [] f = "asyncFail" -> [how |-> "fulfil", v |-> err(x)]
      [] f = "asyncRejectChain" -> [how |-> "reject", v |-> x]
      [] f = "asyncBoomChain" -> [how |-> "throw", v |-> x]
      [] f = "asyncNegate" -> [how |-> "fulfil", v |-> 0 - x]
      [] f = "asyncBoomErr" -> [how |-> "throw", v |-> x]

AsyncFns == AsyncMapFns \cup AsyncChainFns \cup AsyncMatchOkFns \cup AsyncMatchErrFns

\* What a caller-supplied function does on x: returns a value or throws; a
\* promise-returning one returns its promise (id 1) or throws.
Call(f, x) ==
    CASE f = "inc" -> Ret(x + 1)
      [] f = "double" -> Ret(2 * x)
      [] f = "boom" -> Throw(x)
      [] f = "okInc" -> Ret(ok(x + 1))
      [] f = "fail" -> Ret(err(x))
      [] f = "boomChain" -> Throw(x)
      [] f = "negate" -> Ret(0 - x)
      [] f = "boomErr" -> Throw(x)
      [] f \in AsyncFns ->
            IF AsyncFate(f, x).how = "throw" THEN Throw(AsyncFate(f, x).v) ELSE RetPromise(1)

Invocation(f, x) == [fn |-> f, arg |-> x]

\* ------------------------------------------------------------ combinators
\* map with a try/catch that turns what f throws into a failure
mapMutCatch(result, f) ==
    IF isOk(result)
    THEN LET c == Call(f, result.value)
         IN  IF c.t = "throw"
             THEN Exec(Ret(err(c.v)), <<Invocation(f, result.value)>>)
             ELSE Exec(Ret(ok(c.v)), <<Invocation(f, result.value)>>)
    ELSE Exec(Ret(result), <<>>)
\* map that stores f(value) in the Result it was handed and returns that
mapMutInPlace(result, f) ==
    IF isOk(result)
    THEN LET c == Call(f, result.value)
         IN  IF c.t = "throw"
             THEN Exec(c, <<Invocation(f, result.value)>>)
             ELSE [Exec(Ret(ok(c.v)), <<Invocation(f, result.value)>>)
                     EXCEPT !.w = <<FieldWrite("value", c.v)>>]
    ELSE Exec(Ret(result), <<>>)
\* map that applies f to the payload on both branches
mapMutErr(result, f) ==
    LET c == Call(f, IF isOk(result) THEN result.value ELSE result.error)
        i == <<Invocation(f, IF isOk(result) THEN result.value ELSE result.error)>>
    IN  IF c.t = "throw" THEN Exec(c, i)
        ELSE IF isOk(result) THEN Exec(Ret(ok(c.v)), i) ELSE Exec(Ret(err(c.v)), i)
map(result, f) ==
    IF isOk(result)
    THEN LET c == Call(f, result.value)
         IN  IF c.t = "throw"
             THEN Exec(c, <<Invocation(f, result.value)>>)
             ELSE Exec(Ret(ok(c.v)), <<Invocation(f, result.value)>>)
    ELSE Exec(Ret(result), <<>>)

\* andThen with the test of orElse: f runs on the failure, a success is passed on
andThenMutSwap(result, f) ==
    IF isErr(result)
    THEN Exec(Call(f, result.error), <<Invocation(f, result.error)>>)
    ELSE Exec(Ret(result), <<>>)
andThen(result, f) ==
    IF isOk(result)
    THEN Exec(Call(f, result.value), <<Invocation(f, result.value)>>)
    ELSE Exec(Ret(result), <<>>)

\* mapErr that wraps like map: ok for err
mapErrMutOk(result, f) ==
    IF isErr(result)
    THEN LET c == Call(f, result.error)
         IN  IF c.t = "throw"
             THEN Exec(c, <<Invocation(f, result.error)>>)
             ELSE Exec(Ret(ok(c.v)), <<Invocation(f, result.error)>>)
    ELSE Exec(Ret(result), <<>>)
mapErr(result, f) ==
    IF isErr(result)
    THEN LET c == Call(f, result.error)
         IN  IF c.t = "throw"
             THEN Exec(c, <<Invocation(f, result.error)>>)
             ELSE Exec(Ret(err(c.v)), <<Invocation(f, result.error)>>)
    ELSE Exec(Ret(result), <<>>)

\* unwrapOr as result.value || defaultValue: a falsy value gives way to the default
unwrapOrMutFalsy(result, defaultValue) ==
    Exec(Ret(IF isOk(result) /\ result.value # 0 THEN result.value ELSE defaultValue), <<>>)
unwrapOr(result, defaultValue) ==
    Exec(Ret(IF isOk(result) THEN result.value ELSE defaultValue), <<>>)

\* orElse with the test of andThen: f runs on the success, a failure is passed on
orElseMutSwap(result, f) ==
    IF isOk(result)
    THEN Exec(Call(f, result.value), <<Invocation(f, result.value)>>)
    ELSE Exec(Ret(result), <<>>)
orElse(result, f) ==
    IF isErr(result)
    THEN Exec(Call(f, result.error), <<Invocation(f, result.error)>>)
    ELSE Exec(Ret(result), <<>>)

\* match with the branch functions the wrong way round
matchMutSwap(result, okFn, errFn) ==
    IF isOk(result)
    THEN Exec(Call(errFn, result.value), <<Invocation(errFn, result.value)>>)
    ELSE Exec(Call(okFn, result.error), <<Invocation(okFn, result.error)>>)
match(result, okFn, errFn) ==
    IF isOk(result)
    THEN Exec(Call(okFn, result.value), <<Invocation(okFn, result.value)>>)
    ELSE Exec(Call(errFn, result.error), <<Invocation(errFn, result.error)>>)

\* ------------------------------------------------------------- aggregation
\* combine: the for-loop over results from index i with the values pushed so far.
RECURSIVE combineLoop(_, _, _)
combineLoop(results, i, values) ==
    IF i > Len(results) THEN Ret(ok(values))
    ELSE IF isErr(results[i]) THEN Ret(results[i])
    ELSE combineLoop(results, i + 1, Append(values, results[i].value))

\* The indexes of the failures of a sequence.
ErrIndexes(results) == {i \in 1 .. Len(results) : results[i].kind = "err"}
Max(S) == CHOOSE m \in S : \A n \in S : n <= m
Min(S) == CHOOSE m \in S : \A n \in S : m <= n

\* combine that keeps scanning and returns the failure it saw last
combineMutLast(results) ==
    IF ErrIndexes(results) # {}
    THEN Exec(Ret(results[Max(ErrIndexes(results))]), <<>>)
    ELSE Exec(combineLoop(results, 1, <<>>), <<>>)
\* combine with values.unshift for values.push
combineMutUnshift(results) ==
    IF ErrIndexes(results) # {}
    THEN Exec(combineLoop(results, 1, <<>>), <<>>)
    ELSE Exec(Ret(ok([i \in 1 .. Len(results) |-> results[Len(results) + 1 - i].value])), <<>>)
combine(results) == Exec(combineLoop(results, 1, <<>>), <<>>)

\* combineWithAllErrors: the for-loop with both accumulators, then the final test.
RECURSIVE combineWithAllErrorsLoop(_, _, _, _)
combineWithAllErrorsLoop(results, i, values, errors) ==
    IF i > Len(results)
    THEN (IF Len(errors) = 0 THEN Ret(ok(values)) ELSE Ret(err(errors)))
    ELSE IF isOk(results[i])
    THEN combineWithAllErrorsLoop(results, i + 1, Append(values, results[i].value), errors)
    ELSE combineWithAllErrorsLoop(results, i + 1, values, Append(errors, results[i].error))

\* combineWithAllErrors that stops at the first failure as combine does
combineWithAllErrorsMutShort(results) ==
    IF ErrIndexes(results) # {}
    THEN Exec(Ret(err(<<results[Min(ErrIndexes(results))].error>>)), <<>>)
    ELSE Exec(combineWithAllErrorsLoop(results, 1, <<>>, <<>>), <<>>)
\* combineWithAllErrors that tests values.length for errors.length
combineWithAllErrorsMutEmpty(results) ==
    IF Len(results) = 0
    THEN Exec(Ret(err(<<>>)), <<>>)
    ELSE Exec(combineWithAllErrorsLoop(results, 1, <<>>, <<>>), <<>>)
\* combineWithAllErrors with errors.unshift for errors.push
combineWithAllErrorsMutUnshift(results) ==
    LET c == combineWithAllErrorsLoop(results, 1, <<>>, <<>>)
    IN  IF c.v.kind = "err"
        THEN Exec(Ret(err([i \in 1 .. Len(c.v.error) |-> c.v.error[Len(c.v.error) + 1 - i]])), <<>>)
        ELSE Exec(c, <<>>)
combineWithAllErrors(results) == Exec(combineWithAllErrorsLoop(results, 1, <<>>, <<>>), <<>>)

\* The sequences of Results a caller hands to the aggregators.
RECURSIVE SeqsUpTo(_, _)
SeqsUpTo(S, n) ==
    IF n = 0 THEN {<<>>}
    ELSE LET shorter == SeqsUpTo(S, n - 1)
         IN  shorter \cup {Append(q, x) : q \in {s \in shorter : Len(s) = n - 1}, x \in S}

ResultSeqs == SeqsUpTo(Result, MaxLen)

\* ---------------------------------------------------------------- promises
\* A promise: its state and settled value; for a promise derived by then/catch,
\* the promise it reacts to (src) and the handlers; for a promise of the caller,
\* what the caller's computation will do to it (fate).
NoFate == [how |-> "none", v |-> 0]

RootPromise(state, v, fate) ==
    [state |-> state, v |-> v, src |-> 0, onF |-> "none", onR |-> "none", fate |-> fate]

DerivedPromise(src, onF, onR) ==
    [state |-> "pending", v |-> 0, src |-> src, onF |-> onF, onR |-> onR, fate |-> NoFate]

PromiseRef(id) == [promise |-> id]

\* promise.then(onF): a new promise, appended; its id is the new length.
then(ps, src, onF) == Append(ps, DerivedPromise(src, onF, "none"))

\* promise.catch(onR)
catch(ps, src, onR) == Append(ps, DerivedPromise(src, "none", onR))

\* A handler handed to then/catch, applied to the settled value.
Handle(h, v) ==
    CASE h = "ok" -> ok(v)
      [] h = "err" -> err(v)

\* The reaction job of a derived promise p whose source s has settled: with a
\* handler for the source's state the promise fulfils with the handler's
\* return value, without one it takes over the source's state and value.
Reaction(p, s) ==
    IF s.state = "fulfilled"
    THEN [p EXCEPT !.state = "fulfilled", !.v = IF p.onF = "none" THEN s.v ELSE Handle(p.onF, s.v)]
    ELSE IF p.onR = "none"
         THEN [p EXCEPT !.state = "rejected", !.v = s.v]
         ELSE [p EXCEPT !.state = "fulfilled", !.v = Handle(p.onR, s.v)]

\* ------------------------------------------- functions handed to fromThrowable
\* What a zero-argument function does when invoked: returns v, throws v, or
\* returns a promise: one that later fulfils with / rejects with v, or one
\* that is already fulfilled / rejected when it is returned.
ThunkBehaviours == {"ret", "throw", "fulfil", "reject", "resolved", "rejected"}
Thunks == [b : ThunkBehaviours, v : Payload]

\* What a promise-returning f makes of its promise.
PromiseBehaviours == {"fulfil", "reject", "resolved", "rejected"}

ThunkPromise(th) ==
    CASE th.b = "fulfil" -> RootPromise("pending", 0, [how |-> "fulfil", v |-> th.v])
      [] th.b = "reject" -> RootPromise("pending", 0, [how |-> "reject", v |-> th.v])
      [] th.b = "resolved" -> RootPromise("fulfilled", th.v, NoFate)
      [] th.b = "rejected" -> RootPromise("rejected", th.v, NoFate)

\* f(): the completion and the promise it created, if any (its id is 1).
CallThunk(th) ==
    CASE th.b = "ret" -> ExecP(Ret(th.v), <<Invocation(th, <<>>)>>, <<>>)
      [] th.b = "throw" -> ExecP(Throw(th.v), <<Invocation(th, <<>>)>>, <<>>)
      [] OTHER -> ExecP(RetPromise(1), <<Invocation(th, <<>>)>>, <<ThunkPromise(th)>>)

\* fromThrowable without the catch
fromThrowableMutNoCatch(f) ==
    LET e == CallThunk(f)
    IN  CASE e.c.t = "throw" -> ExecP(e.c, e.inv, e.ps)
          [] e.c.t = "ret" -> ExecP(Ret(ok(e.c.v)), e.inv, e.ps)
          [] e.c.t = "promise" -> ExecP(Ret(ok(PromiseRef(e.c.v))), e.inv, e.ps)
\* helpers.ts (and the second half of index.ts): try { return ok(f()) } catch.
\* A promise f returns is a value like any other and is wrapped in ok.
fromThrowable(f) ==
    LET e == CallThunk(f)
    IN  CASE e.c.t = "throw" -> ExecP(Ret(err(e.c.v)), e.inv, e.ps)
          [] e.c.t = "ret" -> ExecP(Ret(ok(e.c.v)), e.inv, e.ps)
          [] e.c.t = "promise" -> ExecP(Ret(ok(PromiseRef(e.c.v))), e.inv, e.ps)

\* the overloaded fromThrowable as an async function would behave: what f
\* throws comes back inside a promise
index_fromThrowableMutAsync(f) ==
    LET e == CallThunk(f)
    IN  CASE e.c.t = "throw" ->
                ExecP(RetPromise(1), e.inv, <<RootPromise("fulfilled", err(e.c.v), NoFate)>>)
          [] e.c.t = "ret" -> ExecP(Ret(ok(e.c.v)), e.inv, e.ps)
          [] e.c.t = "promise" ->
                LET ps1 == then(e.ps, e.c.v, "ok")
                    ps2 == catch(ps1, Len(ps1), "err")
                IN  ExecP(RetPromise(Len(ps2)), e.inv, ps2)
\* index.ts, the overloaded form: a returned Promise gets .then(ok).catch(err).
index_fromThrowable(f) ==
    LET e == CallThunk(f)
    IN  CASE e.c.t = "throw" -> ExecP(Ret(err(e.c.v)), e.inv, e.ps)
          [] e.c.t = "ret" -> ExecP(Ret(ok(e.c.v)), e.inv, e.ps)
          [] e.c.t = "promise" ->
                LET ps1 == then(e.ps, e.c.v, "ok")
                    ps2 == catch(ps1, Len(ps1), "err")
                IN  ExecP(RetPromise(Len(ps2)), e.inv, ps2)

\* The promises a caller hands to fromPromise: pending or already settled.
PromiseInputs == [b : PromiseBehaviours, v : Payload]

\* fromPromise without the catch
fromPromiseMutNoCatch(promise) ==
    LET ps1 == then(<<ThunkPromise(promise)>>, 1, "ok")
    IN  ExecP(RetPromise(Len(ps1)), <<>>, ps1)
\* index.ts: promise.then(ok).catch((error) => err(error)); the promise has id 1.
fromPromise(promise) ==
    LET ps1 == then(<<ThunkPromise(promise)>>, 1, "ok")
        ps2 == catch(ps1, Len(ps1), "err")
    IN  ExecP(RetPromise(Len(ps2)), <<>>, ps2)

\* ------------------------------------------------ asynchronous combinators
\* f(x) for such a function: the promise it returns is pending and has id 1.
CallAsync(f, x) ==
    IF AsyncFate(f, x).how = "throw"
    THEN ExecP(Throw(AsyncFate(f, x).v), <<Invocation(f, x)>>, <<>>)
    ELSE ExecP(RetPromise(1), <<Invocation(f, x)>>, <<RootPromise("pending", 0, AsyncFate(f, x))>>)

\* an await that waits on a promise nothing settles, not on the one f returned
AsyncAwaitMutStuck(e, cont) ==
    IF e.c.t = "throw"
    THEN ExecP(RetPromise(1), e.inv, <<RootPromise("rejected", e.c.v, NoFate)>>)
    ELSE ExecP(RetPromise(Len(e.ps) + 1), e.inv,
               Append(e.ps, DerivedPromise(Len(e.ps) + 1, cont, "none")))
\* The promise of an async function whose body is "return cont(await e.c)":
\* it settles after the awaited promise, fulfilled with cont of its value or
\* rejected with its reason; a throw before the await rejects it at once.
AsyncAwait(e, cont) ==
    IF e.c.t = "throw"
    THEN ExecP(RetPromise(1), e.inv, <<RootPromise("rejected", e.c.v, NoFate)>>)
    ELSE ExecP(RetPromise(Len(e.ps) + 1), e.inv,
               Append(e.ps, DerivedPromise(e.c.v, cont, "none")))

\* The promise of an async function whose body returns v without an await:
\* it is fulfilled with v when the caller gets it.
AsyncReturn(v) == ExecP(RetPromise(1), <<>>, <<RootPromise("fulfilled", v, NoFate)>>)

\* asyncAndThen that awaits on both branches: await f(value), await result
asyncAndThenMutAwait(result, f) ==
    IF isOk(result)
    THEN AsyncAwait(CallAsync(f, result.value), "none")
    ELSE ExecP(RetPromise(2), <<>>,
               <<RootPromise("fulfilled", result, NoFate), DerivedPromise(1, "none", "none")>>)
\* asyncAndThen with the test of orElse: f runs on the failure
asyncAndThenMutSwap(result, f) ==
    IF isErr(result) THEN AsyncAwait(CallAsync(f, result.error), "none") ELSE AsyncReturn(result)
\* helpers.ts: return isOk(result) ? await f(result.value) : result
asyncAndThen(result, f) ==
    IF isOk(result) THEN AsyncAwait(CallAsync(f, result.value), "none") ELSE AsyncReturn(result)

\* asyncMap that maps the payload on both branches, as err(await f(error))
asyncMapMutBoth(result, f) ==
    IF isOk(result)
    THEN AsyncAwait(CallAsync(f, result.value), "ok")
    ELSE AsyncAwait(CallAsync(f, result.error), "err")
\* asyncMap that wraps the awaited value in err
asyncMapMutErr(result, f) ==
    IF isOk(result) THEN AsyncAwait(CallAsync(f, result.value), "err") ELSE AsyncReturn(result)
\* helpers.ts: return isOk(result) ? ok(await f(result.value)) : result
asyncMap(result, f) ==
    IF isOk(result) THEN AsyncAwait(CallAsync(f, result.value), "ok") ELSE AsyncReturn(result)

\* asyncMatch with the branch functions the wrong way round
asyncMatchMutSwap(result, okFn, errFn) ==
    IF isOk(result)
    THEN AsyncAwait(CallAsync(errFn, result.value), "none")
    ELSE AsyncAwait(CallAsync(okFn, result.error), "none")
\* index.ts: return isOk(result) ? await okFn(result.value) : await errFn(result.error)
asyncMatch(result, okFn, errFn) ==
    IF isOk(result)
    THEN AsyncAwait(CallAsync(okFn, result.value), "none")
    ELSE AsyncAwait(CallAsync(errFn, result.error), "none")

\* ------------------------------------------- index.ts, the overloaded forms
\* f(x) for any function a caller may hand over, promise-returning or not.
CallAny(f, x) ==
    IF f \in AsyncFns THEN CallAsync(f, x) ELSE Exec(Call(f, x), <<Invocation(f, x)>>)

\* the overloaded map that wraps the input's value where it should wrap res
index_mapMutStale(result, f) ==
    IF isOk(result)
    THEN LET e == CallAny(f, result.value)
         IN  CASE e.c.t = "throw" -> e
               [] e.c.t = "promise" ->
                     ExecP(RetPromise(Len(e.ps) + 1), e.inv, then(e.ps, e.c.v, "ok"))
               [] e.c.t = "ret" -> ExecP(Ret(ok(result.value)), e.inv, e.ps)
    ELSE Exec(Ret(result), <<>>)
\* index.ts map: res instanceof Promise ? res.then(ok) : ok(res); the failure
\* is returned as it is, whatever f is.
index_map(result, f) ==
    IF isOk(result)
    THEN LET e == CallAny(f, result.value)
         IN  CASE e.c.t = "throw" -> e
               [] e.c.t = "promise" ->
                     ExecP(RetPromise(Len(e.ps) + 1), e.inv, then(e.ps, e.c.v, "ok"))
               [] e.c.t = "ret" -> ExecP(Ret(ok(e.c.v)), e.inv, e.ps)
    ELSE Exec(Ret(result), <<>>)

\* index.ts andThen: both branches of the instanceof test return res.
index_andThen(result, f) ==
    IF isOk(result) THEN CallAny(f, result.value) ELSE Exec(Ret(result), <<>>)

\* index.ts match: both branches of both instanceof tests return res.
index_match(result, okFn, errFn) ==
    IF isOk(result) THEN CallAny(okFn, result.value) ELSE CallAny(errFn, result.error)

\* ------------------------------------------------------- unsafe extraction
\* new Error('Attempted to unwrap an Err value'): the fields the Error carries.
UnwrapError == [name |-> "Error", message |-> "Attempted to unwrap an Err value"]

\* safeUnwrap that hands the payload on as the cause of the Error
safeUnwrapMutCause(result) ==
    IF isErr(result)
    THEN Exec(Throw([name |-> "Error", message |-> "Attempted to unwrap an Err value",
                     cause |-> result.error]), <<>>)
    ELSE Exec(Ret(result.value), <<>>)
safeUnwrap(result) ==
    IF isErr(result)
    THEN Exec(Throw(UnwrapError), <<>>)
    ELSE Exec(Ret(result.value), <<>>)

\* ------------------------------------------------------------------- state
NoRet == [t |-> "none", v |-> 0]

\* Nothing awaited yet; no chain under way.
NoSeen == [has |-> FALSE, how |-> "none", v |-> 0]
NoChain == [n |-> 0, origin |-> [kind |-> "none"]]

\* The steps a caller chains, and the Result the last step left in its hands:
\* the returned Result, or the Result its await of the returned promise gave.
ChainOps == {"map", "andThen", "asyncMap", "asyncAndThen"}
Held == IF ret.t = "ret" THEN ret.v ELSE seen.v
CanChain ==
    /\ op \in ChainOps /\ chain.n >= 1 /\ chain.n < MaxChain
    /\ ret.t = "ret" \/ (ret.t = "promise" /\ seen.has /\ seen.how = "fulfilled")

\* The Results a step is called with: any Result for a first call, the held
\* Result for the next step of a chain.
ChainInputs == IF op = "none" THEN Result ELSE IF CanChain THEN {Held} ELSE {}
Chained(r) == IF op = "none" THEN [n |-> 1, origin |-> r] ELSE [chain EXCEPT !.n = @ + 1]

Init ==
    /\ op = "none"
    /\ impl = "none"
    /\ args = [none |-> TRUE]
    /\ ret = NoRet
    /\ invoked = <<>>
    /\ promises = <<>>
    /\ writes = <<>>
    /\ seen = NoSeen
    /\ chain = NoChain
    /\ jobsDone = 0

\* Every call is one step: the function runs to its return or throw. The
\* caller makes a call when it holds no record of an earlier one.
CallOk ==
    \E x \in Payload :
        /\ op = "none"
        /\ op' = "ok" /\ impl' = "helpers" /\ args' = [value |-> x]
        /\ seen' = NoSeen /\ chain' = NoChain /\ jobsDone' = 0
        /\ ret' = Ret(ok(x)) /\ invoked' = <<>> /\ promises' = <<>> /\ writes' = <<>>

CallErr ==
    \E e \in Payload :
        /\ op = "none"
        /\ op' = "err" /\ impl' = "helpers" /\ args' = [error |-> e]
        /\ seen' = NoSeen /\ chain' = NoChain /\ jobsDone' = 0
        /\ ret' = Ret(err(e)) /\ invoked' = <<>> /\ promises' = <<>> /\ writes' = <<>>

CallIsOk ==
    \E r \in Result :
        /\ op = "none"
        /\ op' = "isOk" /\ impl' = "helpers" /\ args' = [result |-> r]
        /\ seen' = NoSeen /\ chain' = NoChain /\ jobsDone' = 0
        /\ ret' = Ret(isOk(r)) /\ invoked' = <<>> /\ promises' = <<>> /\ writes' = <<>>

CallIsErr ==
    \E r \in Result :
        /\ op = "none"
        /\ op' = "isErr" /\ impl' = "helpers" /\ args' = [result |-> r]
        /\ seen' = NoSeen /\ chain' = NoChain /\ jobsDone' = 0
        /\ ret' = Ret(isErr(r)) /\ invoked' = <<>> /\ promises' = <<>> /\ writes' = <<>>

CallMap ==
    \E r \in ChainInputs, f \in MapFns :
        LET e == map(r, f)
        IN  /\ op' = "map" /\ impl' = "helpers" /\ args' = [result |-> r, f |-> f]
            /\ ret' = e.c /\ invoked' = e.inv /\ promises' = e.ps /\ writes' = e.w
            /\ seen' = NoSeen /\ chain' = Chained(r) /\ jobsDone' = 0

CallAndThen ==
    \E r \in ChainInputs, f \in ChainFns :
        LET e == andThen(r, f)
        IN  /\ op' = "andThen" /\ impl' = "helpers" /\ args' = [result |-> r, f |-> f]
            /\ ret' = e.c /\ invoked' = e.inv /\ promises' = e.ps /\ writes' = e.w
            /\ seen' = NoSeen /\ chain' = Chained(r) /\ jobsDone' = 0

CallCombine ==
    \E rs \in ResultSeqs :
        LET e == combine(rs)
        IN  /\ op = "none"
            /\ op' = "combine" /\ impl' = "helpers" /\ args' = [results |-> rs]
            /\ ret' = e.c /\ invoked' = e.inv /\ promises' = e.ps /\ writes' = e.w
            /\ seen' = NoSeen /\ chain' = NoChain /\ jobsDone' = 0

CallCombineWithAllErrors ==
    \E rs \in ResultSeqs :
        LET e == combineWithAllErrors(rs)
        IN  /\ op = "none"
            /\ op' = "combineWithAllErrors" /\ impl' = "helpers" /\ args' = [results |-> rs]
            /\ ret' = e.c /\ invoked' = e.inv /\ promises' = e.ps /\ writes' = e.w
            /\ seen' = NoSeen /\ chain' = NoChain /\ jobsDone' = 0

CallFromThrowable ==
    \E f \in Thunks :
        LET e == fromThrowable(f)
        IN  /\ op = "none"
            /\ op' = "fromThrowable" /\ impl' = "helpers" /\ args' = [f |-> f]
            /\ ret' = e.c /\ invoked' = e.inv /\ promises' = e.ps /\ writes' = e.w
            /\ seen' = NoSeen /\ chain' = NoChain /\ jobsDone' = 0

CallIndexFromThrowable ==
    \E f \in Thunks :
        LET e == index_fromThrowable(f)
        IN  /\ op = "none"
            /\ op' = "fromThrowable" /\ impl' = "index" /\ args' = [f |-> f]
            /\ ret' = e.c /\ invoked' = e.inv /\ promises' = e.ps /\ writes' = e.w
            /\ seen' = NoSeen /\ chain' = NoChain /\ jobsDone' = 0

CallFromPromise ==
    \E p \in PromiseInputs :
        LET e == fromPromise(p)
        IN  /\ op = "none"
            /\ op' = "fromPromise" /\ impl' = "index" /\ args' = [promise |-> p]
            /\ ret' = e.c /\ invoked' = e.inv /\ promises' = e.ps /\ writes' = e.w
            /\ seen' = NoSeen /\ chain' = NoChain /\ jobsDone' = 0

CallSafeUnwrap ==
    \E r \in Result :
        LET e == safeUnwrap(r)
        IN  /\ op = "none"
            /\ op' = "safeUnwrap" /\ impl' = "helpers" /\ args' = [result |-> r]
            /\ ret' = e.c /\ invoked' = e.inv /\ promises' = e.ps /\ writes' = e.w
            /\ seen' = NoSeen /\ chain' = NoChain /\ jobsDone' = 0

CallMatch ==
    \E r \in Result, okFn \in MatchOkFns, errFn \in MatchErrFns :
        LET e == match(r, okFn, errFn)
        IN  /\ op = "none"
            /\ op' = "match" /\ impl' = "helpers"
            /\ args' = [result |-> r, okFn |-> okFn, errFn |-> errFn]
            /\ ret' = e.c /\ invoked' = e.inv /\ promises' = e.ps /\ writes' = e.w
            /\ seen' = NoSeen /\ chain' = NoChain /\ jobsDone' = 0

CallMapErr ==
    \E r \in Result, f \in MapFns :
        LET e == mapErr(r, f)
        IN  /\ op = "none"
            /\ op' = "mapErr" /\ impl' = "helpers" /\ args' = [result |-> r, f |-> f]
            /\ ret' = e.c /\ invoked' = e.inv /\ promises' = e.ps /\ writes' = e.w
            /\ seen' = NoSeen /\ chain' = NoChain /\ jobsDone' = 0

CallOrElse ==
    \E r \in Result, f \in ChainFns :
        LET e == orElse(r, f)
        IN  /\ op = "none"
            /\ op' = "orElse" /\ impl' = "helpers" /\ args' = [result |-> r, f |-> f]
            /\ ret' = e.c /\ invoked' = e.inv /\ promises' = e.ps /\ writes' = e.w
            /\ seen' = NoSeen /\ chain' = NoChain /\ jobsDone' = 0

CallUnwrapOr ==
    \E r \in Result, d \in Payload :
        LET e == unwrapOr(r, d)
        IN  /\ op = "none"
            /\ op' = "unwrapOr" /\ impl' = "helpers" /\ args' = [result |-> r, defaultValue |-> d]
            /\ ret' = e.c /\ invoked' = e.inv /\ promises' = e.ps /\ writes' = e.w
            /\ seen' = NoSeen /\ chain' = NoChain /\ jobsDone' = 0

CallAsyncAndThen ==
    \E r \in ChainInputs, f \in AsyncChainFns :
        LET e == asyncAndThen(r, f)
        IN  /\ op' = "asyncAndThen" /\ impl' = "helpers" /\ args' = [result |-> r, f |-> f]
            /\ ret' = e.c /\ invoked' = e.inv /\ promises' = e.ps /\ writes' = e.w
            /\ seen' = NoSeen /\ chain' = Chained(r) /\ jobsDone' = 0

CallAsyncMap ==
    \E r \in ChainInputs, f \in AsyncMapFns :
        LET e == asyncMap(r, f)
        IN  /\ op' = "asyncMap" /\ impl' = "helpers" /\ args' = [result |-> r, f |-> f]
            /\ ret' = e.c /\ invoked' = e.inv /\ promises' = e.ps /\ writes' = e.w
            /\ seen' = NoSeen /\ chain' = Chained(r) /\ jobsDone' = 0

CallAsyncMatch ==
    \E r \in Result, okFn \in AsyncMatchOkFns, errFn \in AsyncMatchErrFns :
        LET e == asyncMatch(r, okFn, errFn)
        IN  /\ op = "none"
            /\ op' = "asyncMatch" /\ impl' = "index"
            /\ args' = [result |-> r, okFn |-> okFn, errFn |-> errFn]
            /\ ret' = e.c /\ invoked' = e.inv /\ promises' = e.ps /\ writes' = e.w
            /\ seen' = NoSeen /\ chain' = NoChain /\ jobsDone' = 0

CallIndexMap ==
    \E r \in Result, f \in MapFns \cup AsyncMapFns :
        LET e == index_map(r, f)
        IN  /\ op = "none"
            /\ op' = "map" /\ impl' = "index" /\ args' = [result |-> r, f |-> f]
            /\ ret' = e.c /\ invoked' = e.inv /\ promises' = e.ps /\ writes' = e.w
            /\ seen' = NoSeen /\ chain' = NoChain /\ jobsDone' = 0

CallIndexAndThen ==
    \E r \in Result, f \in ChainFns \cup AsyncChainFns :
        LET e == index_andThen(r, f)
        IN  /\ op = "none"
            /\ op' = "andThen" /\ impl' = "index" /\ args' = [result |-> r, f |-> f]
            /\ ret' = e.c /\ invoked' = e.inv /\ promises' = e.ps /\ writes' = e.w
            /\ seen' = NoSeen /\ chain' = NoChain /\ jobsDone' = 0

CallIndexMatch ==
    \E r \in Result :
      \E fns \in (MatchOkFns \X MatchErrFns) \cup (AsyncMatchOkFns \X AsyncMatchErrFns) :
        LET e == index_match(r, fns[1], fns[2])
        IN  /\ op = "none"
            /\ op' = "match" /\ impl' = "index"
            /\ args' = [result |-> r, okFn |-> fns[1], errFn |-> fns[2]]
            /\ ret' = e.c /\ invoked' = e.inv /\ promises' = e.ps /\ writes' = e.w
            /\ seen' = NoSeen /\ chain' = NoChain /\ jobsDone' = 0

\* The caller's asynchronous computation completes: its promise settles.
Settle ==
    \E i \in DOMAIN promises :
        /\ promises[i].src = 0
        /\ promises[i].state = "pending"
        /\ promises' = [promises EXCEPT
                ![i].state = IF promises[i].fate.how = "fulfil" THEN "fulfilled" ELSE "rejected",
                ![i].v = promises[i].fate.v]
        /\ jobsDone' = jobsDone + 1
        /\ UNCHANGED <<op, impl, args, ret, invoked, writes, seen, chain>>

\* A microtask: the reaction of a derived promise whose source has settled.
React ==
    \E i \in DOMAIN promises :
        /\ promises[i].src # 0
        /\ promises[i].state = "pending"
        /\ promises[promises[i].src].state # "pending"
        /\ promises' = [promises EXCEPT ![i] = Reaction(promises[i], promises[promises[i].src])]
        /\ jobsDone' = jobsDone + 1
        /\ UNCHANGED <<op, impl, args, ret, invoked, writes, seen, chain>>

\* The caller's await of the returned promise resumes, a microtask after the
\* promise has settled, with the value or the reason.
Resume ==
    /\ ret.t = "promise"
    /\ ~seen.has
    /\ promises[ret.v].state # "pending"
    /\ seen' = [has |-> TRUE, how |-> promises[ret.v].state, v |-> promises[ret.v].v]
    /\ jobsDone' = jobsDone + 1
    /\ UNCHANGED <<op, impl, args, ret, invoked, promises, writes, chain>>

\* The caller drops what the last call returned and the promises with it.
Forget ==
    /\ op # "none"
    /\ op' = "none" /\ impl' = "none" /\ args' = [none |-> TRUE]
    /\ ret' = NoRet /\ invoked' = <<>> /\ promises' = <<>> /\ writes' = <<>>
    /\ seen' = NoSeen /\ chain' = NoChain /\ jobsDone' = 0

Next ==
    \/ CallOk
    \/ CallErr
    \/ CallIsOk
    \/ CallIsErr
    \/ CallMap
    \/ CallAndThen
    \/ CallCombine
    \/ CallCombineWithAllErrors
    \/ CallFromThrowable
    \/ CallIndexFromThrowable
    \/ CallFromPromise
    \/ CallSafeUnwrap
    \/ CallMatch
    \/ CallMapErr
    \/ CallOrElse
    \/ CallUnwrapOr
    \/ CallAsyncAndThen
    \/ CallAsyncMap
    \/ CallAsyncMatch
    \/ CallIndexMap
    \/ CallIndexAndThen
    \/ CallIndexMatch
    \/ Settle
    \/ React
    \/ Resume
    \/ Forget

Spec == Init /\ [][Next]_vars

\* The host after a call of an asynchronous combinator has returned: the state
\* the call left, with the caller keeping what it was handed. The caller's own
\* computation settles or not; a reaction job that is ready runs.
Returned(o, i, a, e) ==
    /\ op = o /\ impl = i /\ args = a
    /\ ret = e.c /\ invoked = e.inv /\ promises = e.ps /\ writes = e.w
    /\ seen = NoSeen /\ chain = NoChain /\ jobsDone = 0

LiveInit ==
    \/ \E r \in Result, f \in AsyncMapFns :
            Returned("asyncMap", "helpers", [result |-> r, f |-> f], asyncMap(r, f))
    \/ \E r \in Result, f \in AsyncChainFns :
            Returned("asyncAndThen", "helpers", [result |-> r, f |-> f], asyncAndThen(r, f))
    \/ \E r \in Result, okFn \in AsyncMatchOkFns, errFn \in AsyncMatchErrFns :
            Returned("asyncMatch", "index", [result |-> r, okFn |-> okFn, errFn |-> errFn],
                     asyncMatch(r, okFn, errFn))
    \/ \E p \in PromiseInputs :
            Returned("fromPromise", "index", [promise |-> p], fromPromise(p))
    \/ \E f \in Thunks :
            Returned("fromThrowable", "index", [f |-> f], index_fromThrowable(f))

LiveNext ==
    \/ Settle
    \/ React
    \/ Resume

LiveSpec == LiveInit /\ [][LiveNext]_vars /\ WF_jobsDone(React)

\* ------------------------------------------------------------------ claims
\* C1: ok(x) returns exactly {kind: 'ok', value: x}, of which isOk is true and
\* isErr false; err(e) returns exactly {kind: 'err', error: e}, of which isErr
\* is true and isOk false.
C1_Constructors ==
    /\ op = "ok" =>
          /\ ret.t = "ret"
          /\ DOMAIN ret.v = {"kind", "value"}
          /\ ret.v.kind = "ok"
          /\ ret.v.value = args.value
          /\ isOk(ret.v) /\ ~isErr(ret.v)
    /\ op = "err" =>
          /\ ret.t = "ret"
          /\ DOMAIN ret.v = {"kind", "error"}
          /\ ret.v.kind = "err"
          /\ ret.v.error = args.error
          /\ isErr(ret.v) /\ ~isOk(ret.v)

C1_Witness == op = "ok" /\ args.value = 1 /\ ret.t = "ret" /\ ret.v.kind = "ok"

\* C2: of every Result exactly one of isOk and isErr is true: what isOk returns
\* is the negation of isErr of the same Result, and the other way round.
C2_Exclusive ==
    /\ op = "isOk" => ret.v = ~isErr(args.result)
    /\ op = "isErr" => ret.v = ~isOk(args.result)
    /\ op \in {"isOk", "isErr"} => (isOk(args.result) /\ ~isErr(args.result))
                                      \/ (isErr(args.result) /\ ~isOk(args.result))

C2_Witness == op = "isErr" /\ args.result.kind = "ok" /\ ret.v = FALSE

\* C3: map(ok(x), f) is ok(f(x)) whenever f returns; map(err(e), f) is err(e)
\* and f is not invoked.
C3_Map ==
    op = "map" =>
        /\ (args.result.kind = "ok" /\ Call(args.f, args.result.value).t = "ret") =>
              /\ invoked = <<Invocation(args.f, args.result.value)>>
              /\ ret.t = "ret"
              /\ DOMAIN ret.v = {"kind", "value"}
              /\ ret.v.kind = "ok"
              /\ ret.v.value = Call(args.f, args.result.value).v
        /\ args.result.kind = "err" =>
              /\ invoked = <<>>
              /\ ret.t = "ret"
              /\ DOMAIN ret.v = {"kind", "error"}
              /\ ret.v.kind = "err"
              /\ ret.v.error = args.result.error

C3_Witness ==
    /\ op = "map" /\ args.f = "double" /\ args.result.kind = "ok" /\ args.result.value = 2
    /\ ret.t = "ret" /\ ret.v.kind = "ok" /\ ret.v.value = 4

\* C4: andThen(ok(x), f) is what f(x) returns, not wrapped again, a failure
\* included; andThen(err(e), f) is err(e) and f is not invoked.
C4_AndThen ==
    op = "andThen" =>
        /\ (args.result.kind = "ok" /\ Call(args.f, args.result.value).t = "ret") =>
              LET r == Call(args.f, args.result.value).v
              IN  /\ invoked = <<Invocation(args.f, args.result.value)>>
                  /\ ret.t = "ret"
                  /\ DOMAIN ret.v = DOMAIN r
                  /\ ret.v.kind = r.kind
                  /\ r.kind = "ok" => ret.v.value = r.value
                  /\ r.kind = "err" => ret.v.error = r.error
        /\ args.result.kind = "err" =>
              /\ invoked = <<>>
              /\ ret.t = "ret"
              /\ DOMAIN ret.v = {"kind", "error"}
              /\ ret.v.kind = "err"
              /\ ret.v.error = args.result.error

C4_Witness ==
    /\ op = "andThen" /\ args.f = "fail" /\ args.result.kind = "ok" /\ args.result.value = 1
    /\ ret.t = "ret" /\ ret.v.kind = "err" /\ ret.v.error = 1

\* C5: on a sequence with at least one failure, combine returns the failure at
\* the lowest index, its error as it was in the input.
C5_CombineFirstFailure ==
    (op = "combine" /\ ErrIndexes(args.results) # {}) =>
        /\ ret.t = "ret"
        /\ DOMAIN ret.v = {"kind", "error"}
        /\ ret.v.kind = "err"
        /\ ret.v.error = args.results[Min(ErrIndexes(args.results))].error

C5_Witness ==
    /\ op = "combine" /\ args.results = <<ok(1), err(2), err(0)>>
    /\ ret.t = "ret" /\ ret.v.kind = "err" /\ ret.v.error = 2

\* C6: on a sequence without a failure, combine returns ok of the values, as
\* many as the input has Results and in the input's order.
C6_CombineAllOk ==
    (op = "combine" /\ ErrIndexes(args.results) = {}) =>
        /\ ret.t = "ret"
        /\ DOMAIN ret.v = {"kind", "value"}
        /\ ret.v.kind = "ok"
        /\ Len(ret.v.value) = Len(args.results)
        /\ \A i \in 1 .. Len(args.results) : ret.v.value[i] = args.results[i].value

C6_Witness ==
    /\ op = "combine" /\ args.results = <<ok(2), ok(0), ok(1)>>
    /\ ret.t = "ret" /\ ret.v.kind = "ok" /\ ret.v.value = <<2, 0, 1>>

\* The failures of a sequence, in its order.
FailuresOf(results) == SelectSeq(results, LAMBDA r : r.kind = "err")

\* C7: combineWithAllErrors returns ok of all values in input order when the
\* sequence has no failure, and otherwise err of the errors of all failures,
\* in input order, whatever Results lie between and after them.
C7_CombineWithAllErrors ==
    op = "combineWithAllErrors" =>
        /\ ret.t = "ret"
        /\ ErrIndexes(args.results) = {} =>
              /\ DOMAIN ret.v = {"kind", "value"}
              /\ ret.v.kind = "ok"
              /\ Len(ret.v.value) = Len(args.results)
              /\ \A i \in 1 .. Len(args.results) : ret.v.value[i] = args.results[i].value
        /\ ErrIndexes(args.results) # {} =>
              /\ DOMAIN ret.v = {"kind", "error"}
              /\ ret.v.kind = "err"
              /\ Len(ret.v.error) = Len(FailuresOf(args.results))
              /\ \A i \in 1 .. Len(ret.v.error) :
                    ret.v.error[i] = FailuresOf(args.results)[i].error

C7_Witness ==
    /\ op = "combineWithAllErrors" /\ args.results = <<err(1), ok(2), err(0)>>
    /\ ret.t = "ret" /\ ret.v.kind = "err" /\ ret.v.error = <<1, 0>>

\* C8: on the empty sequence combine and combineWithAllErrors both return
\* ok of the empty sequence.
C8_EmptySequence ==
    (op \in {"combine", "combineWithAllErrors"} /\ Len(args.results) = 0) =>
        /\ ret.t = "ret"
        /\ DOMAIN ret.v = {"kind", "value"}
        /\ ret.v.kind = "ok"
        /\ Len(ret.v.value) = 0

C8_Witness ==
    /\ op = "combineWithAllErrors" /\ Len(args.results) = 0
    /\ ret.t = "ret" /\ ret.v.kind = "ok"

\* C9: fromThrowable(f) with a synchronous f does not throw: it invokes f once
\* and returns ok(v) when f returns v and err(x) when f throws x. Both the
\* form of helpers.ts and the overloaded form of index.ts.
C9_FromThrowableSync ==
    (op = "fromThrowable" /\ args.f.b \in {"ret", "throw"}) =>
        /\ ret.t = "ret"
        /\ Len(invoked) = 1
        /\ args.f.b = "ret" =>
              /\ DOMAIN ret.v = {"kind", "value"}
              /\ ret.v.kind = "ok"
              /\ ret.v.value = args.f.v
        /\ args.f.b = "throw" =>
              /\ DOMAIN ret.v = {"kind", "error"}
              /\ ret.v.kind = "err"
              /\ ret.v.error = args.f.v

C9_Witness ==
    /\ op = "fromThrowable" /\ impl = "helpers" /\ args.f.b = "throw" /\ args.f.v = 2
    /\ ret.t = "ret" /\ ret.v.kind = "err" /\ ret.v.error = 2

\* C10: when f returns a promise, fromThrowable(f) returns a promise, which
\* does not reject and, once settled, holds ok(v) if f's promise fulfilled
\* with v and err(reason) if it rejected with reason; this of every copy of
\* fromThrowable.
C10_FromThrowableAsync ==
    (op = "fromThrowable" /\ args.f.b \in PromiseBehaviours) =>
        /\ ret.t = "promise"
        /\ promises[ret.v].state # "rejected"
        /\ promises[ret.v].state = "fulfilled" =>
              /\ promises[1].state # "pending"
              /\ promises[1].state = "fulfilled" =>
                    (promises[ret.v].v.kind = "ok" /\ promises[ret.v].v.value = args.f.v)
              /\ promises[1].state = "rejected" =>
                    (promises[ret.v].v.kind = "err" /\ promises[ret.v].v.error = args.f.v)

\* The same of the overloaded form of index.ts alone.
C10_IndexFromThrowableAsync == impl = "index" => C10_FromThrowableAsync

C10_IndexWitness ==
    /\ op = "fromThrowable" /\ impl = "index" /\ args.f.b = "reject"
    /\ ret.t = "promise" /\ promises[ret.v].state = "fulfilled"
    /\ promises[ret.v].v.kind = "err"

\* C11: the promise fromPromise(p) returns does not reject; it settles only
\* after p has, fulfilled with ok(v) if p fulfilled with v and with
\* err(reason) if p rejected with reason.
C11_FromPromise ==
    op = "fromPromise" =>
        /\ ret.t = "promise"
        /\ promises[ret.v].state # "rejected"
        /\ promises[ret.v].state = "fulfilled" =>
              /\ promises[1].state # "pending"
              /\ DOMAIN promises[ret.v].v =
                    (IF promises[1].state = "fulfilled" THEN {"kind", "value"} ELSE {"kind", "error"})
              /\ promises[1].state = "fulfilled" =>
                    /\ args.promise.b \in {"fulfil", "resolved"}
                    /\ promises[ret.v].v.kind = "ok"
                    /\ promises[ret.v].v.value = args.promise.v
              /\ promises[1].state = "rejected" =>
                    /\ args.promise.b \in {"reject", "rejected"}
                    /\ promises[ret.v].v.kind = "err"
                    /\ promises[ret.v].v.error = args.promise.v

C11_Witness ==
    /\ op = "fromPromise" /\ args.promise.b = "reject" /\ args.promise.v = 1
    /\ ret.t = "promise" /\ promises[ret.v].state = "fulfilled"
    /\ promises[ret.v].v.kind = "err" /\ promises[ret.v].v.error = 1

\* C12: safeUnwrap (unsafeUnwrap) returns x for ok(x); for err(e) it throws an
\* Error with the fixed message, which has no field that holds e.
C12_SafeUnwrap ==
    op = "safeUnwrap" =>
        /\ args.result.kind = "ok" => (ret.t = "ret" /\ ret.v = args.result.value)
        /\ args.result.kind = "err" =>
              /\ ret.t = "throw"
              /\ DOMAIN ret.v = {"name", "message"}
              /\ ret.v.name = "Error"
              /\ ret.v.message = "Attempted to unwrap an Err value"

C12_Witness ==
    /\ op = "safeUnwrap" /\ args.result.kind = "err" /\ args.result.error = 2
    /\ ret.t = "throw" /\ ret.v.message = "Attempted to unwrap an Err value"

\* C13: match(ok(x), okFn, errFn) completes as okFn(x) does and errFn is not
\* invoked; match(err(e), okFn, errFn) completes as errFn(e) does and okFn is
\* not invoked.
C13_Match ==
    op = "match" =>
        /\ args.result.kind = "ok" =>
              /\ invoked = <<Invocation(args.okFn, args.result.value)>>
              /\ ret = Call(args.okFn, args.result.value)
        /\ args.result.kind = "err" =>
              /\ invoked = <<Invocation(args.errFn, args.result.error)>>
              /\ ret = Call(args.errFn, args.result.error)

C13_Witness ==
    /\ op = "match" /\ args.result.kind = "err" /\ args.result.error = 2
    /\ args.errFn = "negate" /\ ret.t = "ret" /\ ret.v = 0 - 2

\* C14: mapErr(err(e), f) is err(f(e)) whenever f returns; mapErr(ok(x), f) is
\* ok(x) and f is not invoked.
C14_MapErr ==
    op = "mapErr" =>
        /\ (args.result.kind = "err" /\ Call(args.f, args.result.error).t = "ret") =>
              /\ invoked = <<Invocation(args.f, args.result.error)>>
              /\ ret.t = "ret"
              /\ DOMAIN ret.v = {"kind", "error"}
              /\ ret.v.kind = "err"
              /\ ret.v.error = Call(args.f, args.result.error).v
        /\ args.result.kind = "ok" =>
              /\ invoked = <<>>
              /\ ret.t = "ret"
              /\ DOMAIN ret.v = {"kind", "value"}
              /\ ret.v.kind = "ok"
              /\ ret.v.value = args.result.value

C14_Witness ==
    /\ op = "mapErr" /\ args.f = "inc" /\ args.result.kind = "err" /\ args.result.error = 2
    /\ ret.t = "ret" /\ ret.v.kind = "err" /\ ret.v.error = 3

\* C15: orElse(err(e), f) is what f(e) returns; orElse(ok(x), f) is ok(x), the
\* value as it was, and f is not invoked.
C15_OrElse ==
    op = "orElse" =>
        /\ (args.result.kind = "err" /\ Call(args.f, args.result.error).t = "ret") =>
              LET r == Call(args.f, args.result.error).v
              IN  /\ invoked = <<Invocation(args.f, args.result.error)>>
                  /\ ret.t = "ret"
                  /\ DOMAIN ret.v = DOMAIN r
                  /\ ret.v.kind = r.kind
                  /\ r.kind = "ok" => ret.v.value = r.value
                  /\ r.kind = "err" => ret.v.error = r.error
        /\ args.result.kind = "ok" =>
              /\ invoked = <<>>
              /\ ret.t = "ret"
              /\ DOMAIN ret.v = {"kind", "value"}
              /\ ret.v.kind = "ok"
              /\ ret.v.value = args.result.value

C15_Witness ==
    /\ op = "orElse" /\ args.f = "okInc" /\ args.result.kind = "err" /\ args.result.error = 0
    /\ ret.t = "ret" /\ ret.v.kind = "ok" /\ ret.v.value = 1

\* C16: unwrapOr does not throw; unwrapOr(ok(x), d) is x and
\* unwrapOr(err(e), d) is d.
C16_UnwrapOr ==
    op = "unwrapOr" =>
        /\ ret.t = "ret"
        /\ args.result.kind = "ok" => ret.v = args.result.value
        /\ args.result.kind = "err" => ret.v = args.defaultValue

C16_Witness ==
    /\ op = "unwrapOr" /\ args.result.kind = "ok" /\ args.result.value = 0
    /\ args.defaultValue = 2 /\ ret.t = "ret" /\ ret.v = 0

\* C17: asyncAndThen returns a promise. For ok(x) it invokes f on x and, when
\* f's promise fulfils with a Result, fulfils with that Result and not before;
\* for err(e) it is fulfilled with err(e) and f is not invoked.
C17_AsyncAndThen ==
    op = "asyncAndThen" =>
        /\ ret.t = "promise"
        /\ (args.result.kind = "ok"
              /\ AsyncFate(args.f, args.result.value).how = "fulfil") =>
              LET r == AsyncFate(args.f, args.result.value).v
                  p == promises[ret.v]
              IN  /\ invoked = <<Invocation(args.f, args.result.value)>>
                  /\ p.state # "rejected"
                  /\ p.state = "fulfilled" =>
                        /\ promises[1].state = "fulfilled"
                        /\ DOMAIN p.v = DOMAIN r
                        /\ p.v.kind = r.kind
                        /\ r.kind = "ok" => p.v.value = r.value
                        /\ r.kind = "err" => p.v.error = r.error
        /\ args.result.kind = "err" =>
              /\ invoked = <<>>
              /\ promises[ret.v].state = "fulfilled"
              /\ DOMAIN promises[ret.v].v = {"kind", "error"}
              /\ promises[ret.v].v.kind = "err"
              /\ promises[ret.v].v.error = args.result.error

C17_Witness ==
    /\ op = "asyncAndThen" /\ args.f = "asyncFail"
    /\ args.result.kind = "ok" /\ args.result.value = 1
    /\ ret.t = "promise" /\ promises[ret.v].state = "fulfilled"
    /\ promises[ret.v].v.kind = "err" /\ promises[ret.v].v.error = 1

\* C18: asyncMap returns a promise. For ok(x) it invokes f on x and, when f's
\* promise fulfils with v, fulfils with ok(v) and not before; for err(e) it is
\* fulfilled with err(e) and f is not invoked.
C18_AsyncMap ==
    op = "asyncMap" =>
        /\ ret.t = "promise"
        /\ (args.result.kind = "ok"
              /\ AsyncFate(args.f, args.result.value).how = "fulfil") =>
              LET p == promises[ret.v]
              IN  /\ invoked = <<Invocation(args.f, args.result.value)>>
                  /\ p.state # "rejected"
                  /\ p.state = "fulfilled" =>
                        /\ promises[1].state = "fulfilled"
                        /\ DOMAIN p.v = {"kind", "value"}
                        /\ p.v.kind = "ok"
                        /\ p.v.value = AsyncFate(args.f, args.result.value).v
        /\ args.result.kind = "err" =>
              /\ invoked = <<>>
              /\ promises[ret.v].state = "fulfilled"
              /\ DOMAIN promises[ret.v].v = {"kind", "error"}
              /\ promises[ret.v].v.kind = "err"
              /\ promises[ret.v].v.error = args.result.error

C18_Witness ==
    /\ op = "asyncMap" /\ args.f = "asyncInc"
    /\ args.result.kind = "ok" /\ args.result.value = 2
    /\ ret.t = "promise" /\ promises[ret.v].state = "fulfilled"
    /\ promises[ret.v].v.kind = "ok" /\ promises[ret.v].v.value = 3

\* The branch function asyncMatch is to take and the payload it is to get.
BranchFn == IF args.result.kind = "ok" THEN args.okFn ELSE args.errFn
BranchArg == IF args.result.kind = "ok" THEN args.result.value ELSE args.result.error

\* C19: asyncMatch invokes the branch function the discriminator selects, once,
\* and not the other; its promise fulfils with the value that function's
\* promise fulfils with, and not before.
C19_AsyncMatch ==
    op = "asyncMatch" =>
        /\ ret.t = "promise"
        /\ invoked = <<Invocation(BranchFn, BranchArg)>>
        /\ promises[ret.v].state = "fulfilled" =>
              /\ AsyncFate(BranchFn, BranchArg).how = "fulfil"
              /\ promises[1].state = "fulfilled"
              /\ promises[ret.v].v = AsyncFate(BranchFn, BranchArg).v

C19_Witness ==
    /\ op = "asyncMatch" /\ args.result.kind = "err" /\ args.result.error = 2
    /\ args.errFn = "asyncNegate"
    /\ ret.t = "promise" /\ promises[ret.v].state = "fulfilled" /\ promises[ret.v].v = 0 - 2

\* The operations that are handed one Result, and those handed a sequence.
ResultOps == {"map", "mapErr", "andThen", "orElse", "match", "unwrapOr", "safeUnwrap"}
SequenceOps == {"combine", "combineWithAllErrors"}

\* C20: no operation changes what it was handed: after map, mapErr, andThen,
\* orElse, match, unwrapOr and safeUnwrap the input Result has the kind and
\* the payload it had, and after combine and combineWithAllErrors the input
\* sequence has the same Results in the same order.
C20_InputsUnchanged ==
    /\ op \in ResultOps =>
          LET after == Written(args, writes, 1).result
          IN  /\ DOMAIN after = DOMAIN args.result
              /\ after.kind = args.result.kind
              /\ args.result.kind = "ok" => after.value = args.result.value
              /\ args.result.kind = "err" => after.error = args.result.error
    /\ op \in SequenceOps =>
          /\ writes = <<>>
          /\ LET after == Written(args, writes, 1).results
              IN  /\ Len(after) = Len(args.results)
                  /\ \A i \in 1 .. Len(after) : after[i] = args.results[i]

C20_Witness ==
    /\ op = "map" /\ args.f = "inc" /\ args.result.kind = "ok" /\ args.result.value = 1
    /\ ret.t = "ret" /\ ret.v.value = 2
    /\ Written(args, writes, 1).result.value = 1

\* The function a combinator is to invoke on its input and the payload it is
\* to hand to it, if any: map and andThen on a success, mapErr and orElse on a
\* failure, match on both.
Invokes ==
    CASE op \in {"map", "andThen"} -> args.result.kind = "ok"
      [] op \in {"mapErr", "orElse"} -> args.result.kind = "err"
      [] op = "match" -> TRUE
      [] OTHER -> FALSE
InvokedFn == IF op = "match" THEN BranchFn ELSE args.f
InvokedArg == BranchArg

\* C21: when the function that map, mapErr, andThen, orElse or match invokes
\* throws x, the combinator throws x to its caller and returns nothing; the
\* forms of helpers.ts and the overloaded ones of index.ts alike.
C21_ThrowPropagates ==
    (Invokes /\ Call(InvokedFn, InvokedArg).t = "throw") =>
        /\ invoked = <<Invocation(InvokedFn, InvokedArg)>>
        /\ ret.t = "throw"
        /\ ret.v = Call(InvokedFn, InvokedArg).v
        /\ promises = <<>>

C21_Witness ==
    /\ op = "map" /\ impl = "helpers" /\ args.f = "boom"
    /\ args.result.kind = "ok" /\ args.result.value = 2
    /\ ret.t = "throw" /\ ret.v = 2

\* Equality of two plain objects field by field, as a receiver compares what
\* it has deserialized: the same fields with the same values.
StructEq(a, b) == DOMAIN a = DOMAIN b /\ \A fld \in DOMAIN a : a[fld] = b[fld]

\* C22: a Result is its two fields and nothing else: what ok(x) builds equals,
\* field by field, any object with kind 'ok' and value x however it was made,
\* and equals no failure, err(x) included; the same of err(e) the other way.
C22_StructuralEquality ==
    /\ op = "ok" =>
          /\ Cardinality(DOMAIN ret.v) = 2
          /\ StructEq(ret.v, [kind |-> "ok", value |-> args.value])
          /\ \A y \in Payload : ~StructEq(ret.v, err(y))
    /\ op = "err" =>
          /\ Cardinality(DOMAIN ret.v) = 2
          /\ StructEq(ret.v, [kind |-> "err", error |-> args.error])
          /\ \A x \in Payload : ~StructEq(ret.v, ok(x))

C22_Witness ==
    /\ op = "err" /\ args.error = 0 /\ ret.t = "ret"
    /\ StructEq(ret.v, [kind |-> "err", error |-> 0]) /\ ~StructEq(ret.v, ok(0))

\* C23: the overloaded map, called with a promise-returning f, returns a
\* promise for every input: for err(e) a promise that resolves to err(e), for
\* ok(v) the promise chained to f's.
C23_AsyncMapReturnsPromise ==
    (op = "map" /\ impl = "index" /\ args.f \in AsyncMapFns) =>
        /\ args.result.kind = "err" =>
              /\ ret.t = "promise"
              /\ promises[ret.v].state = "pending"
                    \/ (promises[ret.v].state = "fulfilled" /\ promises[ret.v].v = args.result)
        /\ (args.result.kind = "ok" /\ AsyncFate(args.f, args.result.value).how # "throw") =>
              ret.t = "promise"

\* What the overloaded map and andThen do instead on a failure: the input
\* comes back as a plain Result, no promise is made and f is not invoked.
C23_IndexFailurePlain ==
    (op \in {"map", "andThen"} /\ impl = "index" /\ args.f \in AsyncFns
        /\ args.result.kind = "err") =>
        ret = Ret(args.result) /\ promises = <<>> /\ invoked = <<>>

C23_IndexFailureReached ==
    /\ op = "map" /\ impl = "index" /\ args.f = "asyncInc"
    /\ args.result.kind = "err" /\ args.result.error = 1 /\ ret.t = "ret"

\* The other aggregator's completion on the sequence the last call was handed.
CombineOf(results) == combine(results).c
CombineWithAllErrorsOf(results) == combineWithAllErrors(results).c

\* C27: combine and combineWithAllErrors agree on every sequence of Results:
\* one returns ok exactly when the other does, with the same values, and when
\* they return failures combine's error is the first of the other's errors.
C27_AggregatorsAgree ==
    op \in SequenceOps =>
        LET c == IF op = "combine" THEN ret ELSE CombineOf(args.results)
            a == IF op = "combine" THEN CombineWithAllErrorsOf(args.results) ELSE ret
        IN  /\ c.t = "ret" /\ a.t = "ret"
            /\ c.v.kind = a.v.kind
            /\ c.v.kind = "ok" => c.v.value = a.v.value
            /\ c.v.kind = "err" => (Len(a.v.error) >= 1 /\ c.v.error = a.v.error[1])

C27_Witness ==
    /\ op = "combineWithAllErrors" /\ Len(args.results) = 3
    /\ ret.t = "ret" /\ ret.v.kind = "err" /\ ret.v.error = <<1, 2>>
    /\ CombineOf(args.results).v.kind = "err" /\ CombineOf(args.results).v.error = 1

\* C29: the overloaded fromThrowable invokes f once and returns a promise
\* exactly when f returned one; what f throws before returning comes back as
\* the plain err(x), no promise made.
C29_IndexFromThrowable ==
    (op = "fromThrowable" /\ impl = "index") =>
        /\ invoked = <<Invocation(args.f, <<>>)>>
        /\ ret.t = "promise" <=> args.f.b \in PromiseBehaviours
        /\ ret.t \in {"ret", "promise"}
        /\ args.f.b = "throw" =>
              /\ ret.t = "ret" /\ DOMAIN ret.v = {"kind", "error"}
              /\ ret.v.kind = "err" /\ ret.v.error = args.f.v
              /\ promises = <<>>

C29_Witness ==
    /\ op = "fromThrowable" /\ impl = "index" /\ args.f.b = "throw" /\ args.f.v = 1
    /\ ret.t = "ret" /\ ret.v.kind = "err" /\ ret.v.error = 1 /\ Len(invoked) = 1

\* Two executions are the same: the same completion (a returned Result
\* compared field by field), the same invocations, the same promises.
SameExec(a, b) ==
    /\ a.c.t = b.c.t
    /\ IF a.c.t = "ret" /\ op # "match" THEN StructEq(a.c.v, b.c.v) ELSE a.c.v = b.c.v
    /\ a.inv = b.inv
    /\ a.ps = b.ps

\* The last call as an execution.
Done == ExecP(ret, invoked, promises)

SyncFns == MapFns \cup ChainFns \cup MatchOkFns \cup MatchErrFns

\* C30: the copies agree on synchronous functions: what map, andThen and
\* match of either source did is what the one-line form of helpers.ts
\* (index.ts 474-809 and part_002 have the same text) and the overloaded form
\* of index.ts do on the same arguments. The other operations have one text
\* in all copies.
C30_CopiesAgree ==
    /\ (op = "map" /\ args.f \in SyncFns) =>
          /\ SameExec(Done, map(args.result, args.f))
          /\ SameExec(Done, index_map(args.result, args.f))
    /\ (op = "andThen" /\ args.f \in SyncFns) =>
          /\ SameExec(Done, andThen(args.result, args.f))
          /\ SameExec(Done, index_andThen(args.result, args.f))
    /\ (op = "match" /\ args.okFn \in SyncFns) =>
          /\ SameExec(Done, match(args.result, args.okFn, args.errFn))
          /\ SameExec(Done, index_match(args.result, args.okFn, args.errFn))

C30_Witness ==
    /\ op = "map" /\ impl = "index" /\ args.f = "double"
    /\ args.result.kind = "ok" /\ args.result.value = 2
    /\ ret.t = "ret" /\ ret.v.kind = "ok" /\ ret.v.value = 4
    /\ SameExec(Done, map(args.result, args.f))

\* The failure asyncAndThen was handed is in the caller's hands: returned as
\* it is, or delivered by the caller's await.
FailureInHand ==
    \/ ret.t = "ret" /\ ret.v = args.result
    \/ seen.has /\ seen.how = "fulfilled" /\ seen.v = args.result

\* C24 as stated: on a failure input the failure is available to the caller
\* of asyncAndThen without a suspension point or scheduler turn, that is, in
\* every state from the return of the call on.
C24_FailureWithoutTurn ==
    (op = "asyncAndThen" /\ args.result.kind = "err") => FailureInHand

\* C24 amended: on a failure input asyncAndThen executes no await and does
\* not invoke f: the one promise it makes is fulfilled with the input when
\* the call returns. The caller is handed that promise, not the failure, and
\* has the failure once its own await has resumed. On a success input the
\* returned promise is chained to f's and is pending while f's is.
C24_FailureNoAwait ==
    op = "asyncAndThen" =>
        /\ ret.t = "promise"
        /\ args.result.kind = "err" =>
              /\ invoked = <<>>
              /\ Len(promises) = 1 /\ ret.v = 1
              /\ promises[1].src = 0
              /\ promises[1].state = "fulfilled" /\ promises[1].v = args.result
              /\ FailureInHand <=> seen.has
              /\ FailureInHand => jobsDone >= 1
        /\ (args.result.kind = "ok" /\ AsyncFate(args.f, args.result.value).how # "throw") =>
              /\ Len(promises) = 2 /\ ret.v = 2
              /\ promises[2].src = 1
              /\ promises[1].state = "pending" => (promises[2].state = "pending" /\ ~seen.has)

C24_Witness ==
    /\ op = "asyncAndThen" /\ args.result.kind = "err" /\ args.result.error = 1
    /\ ret.t = "promise" /\ promises[ret.v].state = "fulfilled"
    /\ promises[ret.v].v = args.result
    /\ ~seen.has /\ ~FailureInHand /\ jobsDone = 0

C24_WitnessResumed ==
    /\ op = "asyncAndThen" /\ args.result.kind = "err" /\ args.result.error = 1
    /\ seen.has /\ FailureInHand

\* The asynchronous combinators, and the state in which one of them is awaiting
\* the computation the caller supplied: that promise has id 1 and the returned
\* promise is another, chained to it.
AwaitingOps == {"asyncMap", "asyncAndThen", "asyncMatch", "fromPromise", "fromThrowable"}
Awaiting == op \in AwaitingOps /\ ret.t = "promise" /\ ret.v > 1
Settled(i) == promises[i].state # "pending"

\* C25: an asynchronous combinator that is awaiting the caller's computation
\* settles only after that computation has settled, and once the computation
\* has fulfilled or rejected the combinator's promise eventually settles.
C25_SettlesWithComputation ==
    /\ []((Awaiting /\ Settled(ret.v)) => Settled(1))
    /\ (Awaiting /\ Settled(1)) ~> (ret.t = "promise" /\ Settled(ret.v))

C25_Witness ==
    /\ op = "fromThrowable" /\ impl = "index" /\ args.f.b = "reject"
    /\ Awaiting /\ Settled(1) /\ Settled(2) /\ Settled(ret.v) /\ ret.v = 3

\* C26: a failure flows unchanged through a chain of map, andThen, asyncMap
\* and asyncAndThen steps: when the chain started from err(e), every step is
\* handed err(e) and gives err(e) back (as its Result, or as what its promise
\* is fulfilled with and the caller's await delivers), invokes nothing and
\* does not throw.
C26_FailureFlows ==
    (op \in ChainOps /\ chain.n >= 1 /\ chain.origin.kind = "err") =>
        /\ StructEq(args.result, chain.origin)
        /\ invoked = <<>>
        /\ ret.t \in {"ret", "promise"}
        /\ ret.t = "ret" => StructEq(ret.v, chain.origin)
        /\ ret.t = "promise" =>
              /\ promises[ret.v].state = "fulfilled"
              /\ StructEq(promises[ret.v].v, chain.origin)
        /\ seen.has => (seen.how = "fulfilled" /\ StructEq(seen.v, chain.origin))

C26_Witness ==
    /\ op = "asyncMap" /\ chain.n = 2
    /\ chain.origin.kind = "err" /\ chain.origin.error = 1
    /\ seen.has /\ seen.v.kind = "err" /\ seen.v.error = 1
    /\ invoked = <<>>

\* ------------------------------------------------ objects off the wire
\* What a receiver deserializes is plain data: a well-formed Result, or an
\* object whose kind is some other string. These carry both payload fields,
\* so that each function finds the field it reads.
WireObjects ==
    Result \cup {[kind |-> "other", value |-> v, error |-> e] : v \in Payload, e \in Payload}

\* A payload no object carries: the default handed to unwrapOr, and the error
\* of the failure that follows the object in the array handed to an aggregator.
Marker == MaxPayload + 1

WireMap ==
    \E o \in WireObjects, f \in MapFns :
        LET e == map(o, f)
        IN  /\ op = "none"
            /\ op' = "map" /\ impl' = "helpers" /\ args' = [result |-> o, f |-> f]
            /\ ret' = e.c /\ invoked' = e.inv /\ promises' = e.ps /\ writes' = e.w
            /\ seen' = NoSeen /\ chain' = NoChain /\ jobsDone' = 0

WireMapErr ==
    \E o \in WireObjects, f \in MapFns :
        LET e == mapErr(o, f)
        IN  /\ op = "none"
            /\ op' = "mapErr" /\ impl' = "helpers" /\ args' = [result |-> o, f |-> f]
            /\ ret' = e.c /\ invoked' = e.inv /\ promises' = e.ps /\ writes' = e.w
            /\ seen' = NoSeen /\ chain' = NoChain /\ jobsDone' = 0

WireAndThen ==
    \E o \in WireObjects, f \in ChainFns :
        LET e == andThen(o, f)
        IN  /\ op = "none"
            /\ op' = "andThen" /\ impl' = "helpers" /\ args' = [result |-> o, f |-> f]
            /\ ret' = e.c /\ invoked' = e.inv /\ promises' = e.ps /\ writes' = e.w
            /\ seen' = NoSeen /\ chain' = NoChain /\ jobsDone' = 0

WireOrElse ==
    \E o \in WireObjects, f \in ChainFns :
        LET e == orElse(o, f)
        IN  /\ op = "none"
            /\ op' = "orElse" /\ impl' = "helpers" /\ args' = [result |-> o, f |-> f]
            /\ ret' = e.c /\ invoked' = e.inv /\ promises' = e.ps /\ writes' = e.w
            /\ seen' = NoSeen /\ chain' = NoChain /\ jobsDone' = 0

WireMatch ==
    \E o \in WireObjects, okFn \in MatchOkFns, errFn \in MatchErrFns :
        LET e == match(o, okFn, errFn)
        IN  /\ op = "none"
            /\ op' = "match" /\ impl' = "helpers"
            /\ args' = [result |-> o, okFn |-> okFn, errFn |-> errFn]
            /\ ret' = e.c /\ invoked' = e.inv /\ promises' = e.ps /\ writes' = e.w
            /\ seen' = NoSeen /\ chain' = NoChain /\ jobsDone' = 0

WireUnwrapOr ==
    \E o \in WireObjects :
        LET e == unwrapOr(o, Marker)
        IN  /\ op = "none"
            /\ op' = "unwrapOr" /\ impl' = "helpers"
            /\ args' = [result |-> o, defaultValue |-> Marker]
            /\ ret' = e.c /\ invoked' = e.inv /\ promises' = e.ps /\ writes' = e.w
            /\ seen' = NoSeen /\ chain' = NoChain /\ jobsDone' = 0

WireCombine ==
    \E o \in WireObjects :
        LET e == combine(<<o, err(Marker)>>)
        IN  /\ op = "none"
            /\ op' = "combine" /\ impl' = "helpers"
            /\ args' = [result |-> o, results |-> <<o, err(Marker)>>]
            /\ ret' = e.c /\ invoked' = e.inv /\ promises' = e.ps /\ writes' = e.w
            /\ seen' = NoSeen /\ chain' = NoChain /\ jobsDone' = 0

WireCombineWithAllErrors ==
    \E o \in WireObjects :
        LET e == combineWithAllErrors(<<o, err(Marker)>>)
        IN  /\ op = "none"
            /\ op' = "combineWithAllErrors" /\ impl' = "helpers"
            /\ args' = [result |-> o, results |-> <<o, err(Marker)>>]
            /\ ret' = e.c /\ invoked' = e.inv /\ promises' = e.ps /\ writes' = e.w
            /\ seen' = NoSeen /\ chain' = NoChain /\ jobsDone' = 0

WireUnsafeUnwrap ==
    \E o \in WireObjects :
        LET e == safeUnwrap(o)
        IN  /\ op = "none"
            /\ op' = "unsafeUnwrap" /\ impl' = "index" /\ args' = [result |-> o]
            /\ ret' = e.c /\ invoked' = e.inv /\ promises' = e.ps /\ writes' = e.w
            /\ seen' = NoSeen /\ chain' = NoChain /\ jobsDone' = 0

WireNext ==
    \/ WireMap
    \/ WireMapErr
    \/ WireAndThen
    \/ WireOrElse
    \/ WireMatch
    \/ WireUnwrapOr
    \/ WireCombine
    \/ WireCombineWithAllErrors
    \/ WireUnsafeUnwrap
    \/ Forget

WireSpec == Init /\ [][WireNext]_vars

\* How the last call handled the object, read off what the call did. As a
\* success: the function for the value ran on its value (map, andThen, match),
\* the object came back untouched (mapErr, orElse), its value came back
\* (unwrapOr, unsafeUnwrap), the scan went on past it to the marker failure
\* (combine), its value was collected and only the marker reported
\* (combineWithAllErrors).
HandledAsSuccess ==
    CASE op \in {"map", "andThen"} -> Len(invoked) = 1 /\ invoked[1].fn = args.f
      [] op = "match" -> Len(invoked) = 1 /\ invoked[1].fn = args.okFn
      [] op \in {"mapErr", "orElse"} -> invoked = <<>> /\ ret = Ret(args.result)
      [] op = "unwrapOr" -> ret.t = "ret" /\ ret.v # args.defaultValue
      [] op = "unsafeUnwrap" -> ret.t = "ret"
      [] op = "combine" -> ret.v.kind = "err" /\ ret.v.error = Marker
      [] op = "combineWithAllErrors" -> ret.v.kind = "err" /\ Len(ret.v.error) = 1
      [] OTHER -> FALSE

\* As a failure: the function for the error ran on its error (mapErr, orElse,
\* match), the object came back untouched (map, andThen), the default came back
\* (unwrapOr), the call threw (unsafeUnwrap), the scan stopped at the object
\* (combine), its error was collected ahead of the marker (combineWithAllErrors).
HandledAsFailure ==
    CASE op \in {"mapErr", "orElse"} -> Len(invoked) = 1 /\ invoked[1].fn = args.f
      [] op = "match" -> Len(invoked) = 1 /\ invoked[1].fn = args.errFn
      [] op \in {"map", "andThen"} -> invoked = <<>> /\ ret = Ret(args.result)
      [] op = "unwrapOr" -> ret.t = "ret" /\ ret.v = args.defaultValue
      [] op = "unsafeUnwrap" -> ret.t = "throw"
      [] op = "combine" -> ret.v.kind # "err" \/ ret.v.error # Marker
      [] op = "combineWithAllErrors" -> ret.v.kind = "err" /\ Len(ret.v.error) = 2
      [] OTHER -> FALSE

\* C28: every operation handles an object off the wire, whatever its kind, as
\* a failure exactly when isErr is true of it and as a success exactly when
\* isOk is true of it.
C28_ClassifiedAlike ==
    op # "none" =>
        /\ HandledAsFailure <=> isErr(args.result)
        /\ HandledAsSuccess <=> isOk(args.result)

\* What the functions do with an object whose kind is neither: those that test
\* isOk handle it as a failure, those that test isErr handle it as a success.
\* Objects whose kind is 'ok' or 'err' are handled as the claim says.
TestsIsOk == {"map", "andThen", "match", "unwrapOr", "combineWithAllErrors"}
C28_ClassifiedByTest ==
    op # "none" =>
        /\ HandledAsFailure # HandledAsSuccess
        /\ args.result \in Result =>
                /\ HandledAsFailure <=> isErr(args.result)
                /\ HandledAsSuccess <=> isOk(args.result)
        /\ args.result \notin Result => (HandledAsFailure <=> op \in TestsIsOk)
C28_Reached ==
    /\ op = "unwrapOr" /\ args.result.kind = "other" /\ ret = Ret(Marker)
    /\ HandledAsFailure /\ ~isErr(args.result)

====
